---- MODULE Spec2Model ----
(***************************************************************************)
(* Model of the parallel incident-response workflow                        *)
(* (src/workflows/parallel_workflow.py, src/core/state.py,                 *)
(* src/agents/base_agent.py, src/core/config.py).                          *)
(*                                                                         *)
(* Numbers.  Confidence values are Python floats in [0,1].  They are       *)
(* represented as integers counting sixtieths: 0.5 is 30, 0.6 is 36,       *)
(* 0.7 is 42, 1.0 is 60.  The signals the tasks may return are multiples   *)
(* of 0.1 (6 sixtieths), so the mean of one, two or three of them is a     *)
(* whole number of sixtieths; for the signals and thresholds used here     *)
(* the float mean compares with the threshold exactly as the rational      *)
(* mean does.  Timestamps count half minutes.                              *)
(*                                                                         *)
(* Python dicts are functions on strings; None is the empty sequence;      *)
(* a value that may be None is wrapped in a one-element sequence.          *)
(***************************************************************************)
EXTENDS Integers, Sequences, FiniteSets, TLC

VARIABLES
    pc,                 \* where the coordinator of process_incident is suspended
    incident_data,      \* the argument of process_incident
    threshold,          \* config.auto_remediation_confidence_threshold
    now,                \* the wall clock, in half minutes
    state,              \* the Incident Record (create_incident_state)
    task,               \* per collaborator: not invoked / running / outcome
    locals,             \* local variables of process_incident
    metrics,            \* self.metrics of the workflow instance
    result,             \* what process_incident returned
    probe               \* inputs and outputs of the decision functions called on their own

vars == <<pc, incident_data, threshold, now, state, task, locals, metrics, result, probe>>

----------------------------------------------------------------------------
(* Bounds *)

MaxClock == 1

----------------------------------------------------------------------------
(* Python values *)

None == <<>>

Some(x) == <<x>>

EmptyDict == [k \in {} |-> 0]

dict_get(d, k, default) == IF k \in DOMAIN d THEN d[k] ELSE default

\* d.update(updates): the keys of updates win
dict_update(d, updates) == updates @@ d

\* datetime.isoformat() / datetime.fromisoformat(): a string that parses back
isoformat(t) == <<"iso", t>>

fromisoformat(s) == s[2]

----------------------------------------------------------------------------
(* Configuration *)

DefaultThreshold == 36

Thresholds == {30, DefaultThreshold}

RemediationFloor == 42

----------------------------------------------------------------------------
(* Inputs *)

Severities == {"P0", "P1", "P2", "P3"}

\* the severities the workflow is run with (P1, P2 and P3 take the same path)
InputSeverities == {"P0", "P2"}

\* incident_data: the identifier and the severity may be absent
IncidentInputs ==
    { [service |-> "api", type |-> "high_cpu"] @@ id @@ sev :
        id \in {EmptyDict, [incident_id |-> "INC-1"]},
        sev \in {EmptyDict} \cup { [severity |-> s] : s \in InputSeverities } }

\* uuid4()[:8].upper() of create_incident_state
RandomIds == {"1A2B3C4D"}

----------------------------------------------------------------------------
(* Collaborators: the six agents and the remediation executor *)

ParallelAgents == <<"detective", "diagnostics", "historical">>

ParallelSet == {ParallelAgents[i] : i \in 1..3}

Agents == ParallelSet \cup {"remediation", "communication", "postmortem"}

Executor == "execute_remediation"

\* the key under which each agent reports its signal
SignalKey(agent) ==
    CASE agent = "detective"     -> "confidence"
      [] agent = "diagnostics"   -> "health_score"
      [] agent = "historical"    -> "pattern_confidence"
      [] agent = "remediation"   -> "remediation_confidence"
      [] agent = "communication" -> "communication_confidence"
      [] agent = "postmortem"    -> "documentation_confidence"

\* the signals analyze_async may compute, in sixtieths
Signals(agent) ==
    CASE agent \in ParallelSet     -> {0, 36, 54}
      [] agent = "remediation"     -> {36, 42}
      [] OTHER                     -> {48}

\* what analyze_async does when awaited: returns its dict or raises
AnalyzeOutcomes(agent) ==
    { [kind |-> "return", value |-> ("analysis" :> "text") @@ (SignalKey(agent) :> s)] :
        s \in Signals(agent) }
    \cup { [kind |-> "raise", exc |-> e] : e \in {"Exception", "CancelledError"} }

\* the environment of one execute_async call: a fault before its try block
\* (lines 158-161), or the outcome of analyze_async
TaskEnvs(agent) ==
    { [pre |-> "raise", exc |-> "Exception"] }
    \cup { [pre |-> "ok", inner |-> o] : o \in AnalyzeOutcomes(agent) }

\* a variant that catches a narrower class than the faults raised
except_ValueError(exc) == exc = "ValueError"

\* except Exception: catches every class but the BaseException-only ones
except_Exception(exc) == exc # "CancelledError"

\* BaseIncidentAgent.execute_async
execute_async(agent, env, t) ==
    IF env.pre = "raise" THEN [kind |-> "raise", exc |-> env.exc]
    ELSE IF env.inner.kind = "return" THEN
        [kind |-> "return",
         value |-> dict_update(env.inner.value,
                      [agent |-> agent, success |-> TRUE, timestamp |-> isoformat(t)])]
    ELSE IF except_Exception(env.inner.exc) THEN
        [kind |-> "return",
         value |-> [agent |-> agent, error |-> "str(e)", success |-> FALSE,
                    timestamp |-> isoformat(t)]]
    ELSE [kind |-> "raise", exc |-> env.inner.exc]

\* RemediationAgent.execute_remediation: random success, or a fault of the call
ExecutionOutcomes ==
    { [kind |-> "return", value |-> [success |-> b]] : b \in BOOLEAN }
    \cup { [kind |-> "raise", exc |-> e] : e \in {"Exception", "CancelledError"} }

----------------------------------------------------------------------------
(* src/core/state.py *)

\* datetime.now().strftime("%Y%m%d"): the clock stays within one day
strftime_Ymd(t) == "20240101"

create_incident_state(data, t, random_id) ==
    LET absent == "incident_id" \notin DOMAIN data
        incident_id == IF absent \/ data.incident_id = ""
                       THEN "INC-" \o strftime_Ymd(t) \o "-" \o random_id
                       ELSE data.incident_id
    IN  [incident_id |-> incident_id,
         affected_service |-> dict_get(data, "service", "unknown"),
         incident_type |-> dict_get(data, "type", "unknown"),
         severity |-> dict_get(data, "severity", "P3"),
         created_at |-> isoformat(t),
         updated_at |-> isoformat(t),
         agent_analyses |-> EmptyDict,
         overall_confidence |-> 0,
         status |-> "active",
         stage |-> "initialized",
         workflow_complete |-> FALSE,
         resolved_at |-> None,
         resolution_method |-> None,
         resolution_time_minutes |-> None,
         errors |-> <<>>,
         retry_count |-> 0]

update_incident_state(st, updates, t) ==
    dict_update(st, dict_update(updates, [updated_at |-> isoformat(t)]))

\* a variant that stores the result as it came
add_agent_result_unstamped(st, agent_name, res, t) ==
    dict_update(st,
        [agent_analyses |-> dict_update(st.agent_analyses, agent_name :> res),
         updated_at |-> isoformat(t)])

\* a variant that keeps the newest task result only
add_agent_result_replacing(st, agent_name, res, t) ==
    LET stamped == dict_update(res, [timestamp |-> isoformat(t), agent |-> agent_name])
    IN  dict_update(st,
            [agent_analyses |-> agent_name :> stamped,
             updated_at |-> isoformat(t)])

add_agent_result(st, agent_name, res, t) ==
    LET stamped == dict_update(res, [timestamp |-> isoformat(t), agent |-> agent_name])
    IN  dict_update(st,
            [agent_analyses |-> dict_update(st.agent_analyses, agent_name :> stamped),
             updated_at |-> isoformat(t)])

\* the signals calculate_overall_confidence reads, in its order (lines 96-98)
ParallelSignals(analyses) ==
    [i \in 1..3 |->
        dict_get(dict_get(analyses, ParallelAgents[i], EmptyDict),
                 SignalKey(ParallelAgents[i]), 0)]

\* a variant that also counts the signal of remediation planning
confidences_with_remediation(analyses) ==
    SelectSeq(ParallelSignals(analyses)
                \o <<dict_get(dict_get(analyses, "remediation", EmptyDict),
                              "remediation_confidence", 0)>>,
              LAMBDA x : x > 0)

\* the list "confidences" (lines 101-107)
confidences(analyses) == SelectSeq(ParallelSignals(analyses), LAMBDA x : x > 0)

SumSeq(q) == IF Len(q) = 0 THEN 0
             ELSE IF Len(q) = 1 THEN q[1]
             ELSE IF Len(q) = 2 THEN q[1] + q[2]
             ELSE q[1] + q[2] + q[3]

\* a variant that averages over all three tasks, silent ones included
overall_confidence_value_mean_of_three(st) ==
    SumSeq(ParallelSignals(dict_get(st, "agent_analyses", EmptyDict))) \div 3

\* the value calculate_overall_confidence returns
overall_confidence_value(st) ==
    LET analyses == dict_get(st, "agent_analyses", EmptyDict)
        cs == confidences(analyses)
    IN  IF DOMAIN analyses = {} THEN 0
        ELSE IF Len(cs) = 0 THEN 0
        ELSE SumSeq(cs) \div Len(cs)

\* a variant that returns the value without writing it to the record
calculate_overall_confidence_unwritten(st) == st

\* the record calculate_overall_confidence leaves behind: written only when
\* some signal is positive (the early returns of lines 93 and 110 write nothing)
calculate_overall_confidence(st) ==
    LET analyses == dict_get(st, "agent_analyses", EmptyDict)
    IN  IF DOMAIN analyses = {} \/ Len(confidences(analyses)) = 0 THEN st
        ELSE dict_update(st, [overall_confidence |-> overall_confidence_value(st)])

\* int(x / 60) of a difference in half minutes: truncation toward zero
resolution_minutes(t, created) ==
    IF t >= created THEN (t - created) \div 2 ELSE -((created - t) \div 2)

\* a variant that resolves the record without naming the method
mark_incident_resolved_unnamed(st, resolution_method, t) ==
    update_incident_state(st,
        [status |-> "resolved",
         stage |-> "resolved",
         resolved_at |-> isoformat(t),
         resolution_time_minutes |-> Some(resolution_minutes(t, fromisoformat(st.created_at))),
         workflow_complete |-> TRUE], t)

\* a variant that resolves the record without dating it
mark_incident_resolved_undated(st, resolution_method, t) ==
    update_incident_state(st,
        [status |-> "resolved",
         stage |-> "resolved",
         resolution_method |-> Some(resolution_method),
         workflow_complete |-> TRUE], t)

mark_incident_resolved(st, resolution_method, t) ==
    update_incident_state(st,
        [status |-> "resolved",
         stage |-> "resolved",
         resolved_at |-> isoformat(t),
         resolution_method |-> Some(resolution_method),
         resolution_time_minutes |-> Some(resolution_minutes(t, fromisoformat(st.created_at))),
         workflow_complete |-> TRUE], t)

\* a variant that parks the record in an intermediate status
mark_incident_escalated_mitigating(st, escalation_reason, t) ==
    update_incident_state(st,
        [status |-> "mitigating",
         stage |-> "escalated",
         escalation_reason |-> escalation_reason,
         workflow_complete |-> TRUE], t)

\* a variant that also stamps the resolution fields
mark_incident_escalated_stamps_resolution(st, escalation_reason, t) ==
    update_incident_state(st,
        [status |-> "escalated",
         stage |-> "escalated",
         escalation_reason |-> escalation_reason,
         resolved_at |-> isoformat(t),
         resolution_time_minutes |-> Some(resolution_minutes(t, fromisoformat(st.created_at))),
         workflow_complete |-> TRUE], t)

mark_incident_escalated(st, escalation_reason, t) ==
    update_incident_state(st,
        [status |-> "escalated",
         stage |-> "escalated",
         escalation_reason |-> escalation_reason,
         workflow_complete |-> TRUE], t)

\* a variant that keeps the latest error only
add_error_latest_only(st, error_message, agent_name, t) ==
    dict_update(st,
        [errors |-> <<[timestamp |-> isoformat(t), message |-> error_message,
                       agent |-> agent_name]>>,
         updated_at |-> isoformat(t)])

add_error(st, error_message, agent_name, t) ==
    dict_update(st,
        [errors |-> Append(st.errors,
                        [timestamp |-> isoformat(t), message |-> error_message,
                         agent |-> agent_name]),
         updated_at |-> isoformat(t)])

----------------------------------------------------------------------------
(* Decision Engine: src/workflows/parallel_workflow.py lines 271-288 *)

\* f"{x:.2f}": x in sixtieths, to the nearest hundredth (a sixtieth is never
\* half-way between two hundredths)
fmt_2f(x) == (x * 10 + 3) \div 6

\* a variant with the threshold excluded
_should_auto_remediate_strict(overall_confidence, remediation_confidence, severity, T) ==
    /\ overall_confidence > T
    /\ remediation_confidence >= RemediationFloor
    /\ severity # "P0"

\* a variant without the severity test
_should_auto_remediate_any_severity(overall_confidence, remediation_confidence, severity, T) ==
    /\ overall_confidence >= T
    /\ remediation_confidence >= RemediationFloor

_should_auto_remediate(overall_confidence, remediation_confidence, severity, T) ==
    /\ overall_confidence >= T
    /\ remediation_confidence >= RemediationFloor
    /\ severity # "P0"

\* a variant that tests the confidences before the severity
_get_escalation_reason_confidence_first(overall_confidence, remediation_confidence, severity, T) ==
    IF overall_confidence < T
        THEN <<"Low overall confidence", fmt_2f(overall_confidence)>>
    ELSE IF remediation_confidence < RemediationFloor
        THEN <<"Low remediation confidence", fmt_2f(remediation_confidence)>>
    ELSE IF severity = "P0" THEN <<"P0 severity - requires human oversight">>
    ELSE <<"Unknown escalation reason">>

\* a variant whose remediation test uses the overall threshold
_get_escalation_reason_threshold_twice(overall_confidence, remediation_confidence, severity, T) ==
    IF severity = "P0" THEN <<"P0 severity - requires human oversight">>
    ELSE IF overall_confidence < T
        THEN <<"Low overall confidence", fmt_2f(overall_confidence)>>
    ELSE IF remediation_confidence < T
        THEN <<"Low remediation confidence", fmt_2f(remediation_confidence)>>
    ELSE <<"Unknown escalation reason">>

_get_escalation_reason(overall_confidence, remediation_confidence, severity, T) ==
    IF severity = "P0" THEN <<"P0 severity - requires human oversight">>
    ELSE IF overall_confidence < T
        THEN <<"Low overall confidence", fmt_2f(overall_confidence)>>
    ELSE IF remediation_confidence < RemediationFloor
        THEN <<"Low remediation confidence", fmt_2f(remediation_confidence)>>
    ELSE <<"Unknown escalation reason">>

----------------------------------------------------------------------------
(* ParallelIncidentWorkflow: src/workflows/parallel_workflow.py *)

InitialMetrics ==
    [total_incidents_handled |-> 0,
     auto_remediated_count |-> 0,
     escalated_count |-> 0,
     success_rate |-> <<0, 1>>,          \* a quotient: numerator, denominator
     avg_workflow_time |-> <<0, 1>>]

\* _update_metrics: the rate and the average are kept as quotients
_update_metrics(m, workflow_time) ==
    LET total == m.total_incidents_handled + 1
    IN  IF total > 0
        THEN dict_update(m,
                [total_incidents_handled |-> total,
                 success_rate |-> <<m.auto_remediated_count * 100, total>>,
                 avg_workflow_time |->
                    <<(m.avg_workflow_time[1] * (total - 1)) \div m.avg_workflow_time[2]
                        + workflow_time, total>>])
        ELSE dict_update(m, [total_incidents_handled |-> total])

Increment(m, counter) == dict_update(m, counter :> (m[counter] + 1))

\* isinstance(results[i], Exception)
isinstance_Exception(exc) == exc # "CancelledError"

\* a variant with one fallback signal for every task
FallbackSignal_uniform(agent) == 30

\* a variant whose placeholder for remediation planning reaches the floor
FallbackSignal_plan_at_floor(agent) == IF agent = "remediation" THEN 42 ELSE 30

\* a variant whose placeholders reach the default threshold
FallbackSignal_at_threshold(agent) == IF agent = "remediation" THEN 18 ELSE 36

\* the signal of the placeholder built for a faulted task
FallbackSignal(agent) == IF agent = "remediation" THEN 18 ELSE 30

\* the placeholder results of lines 90-98, 128-130, 143-145, 184-186
fallback_result(agent) ==
    [agent |-> agent, error |-> "str(e)", success |-> FALSE]
        @@ (SignalKey(agent) :> FallbackSignal(agent))

\* a variant that resumes the coordinator at the first finished task (a race)
gather_ready_first_completed(tk) == \E a \in ParallelSet : tk[a].st = "done"

\* a variant that stops waiting once two of the three tasks are done
gather_ready_two_of_three(tk) ==
    Cardinality({a \in ParallelSet : tk[a].st = "done"}) >= 2

\* asyncio.gather(..., return_exceptions=True): resumes the coordinator once
\* every awaitable has finished, whatever it finished with
gather_ready(tk) == \A a \in ParallelSet : tk[a].st = "done"

\* a variant that leaves the gathered exceptions as they are
convert_results_unconverted(tk) == [i \in 1..3 |-> tk[ParallelAgents[i]].out]

\* lines 90-98: each gathered result, an Exception replaced by its placeholder
convert_results(tk) ==
    [i \in 1..3 |->
        LET r == tk[ParallelAgents[i]].out
        IN  IF r.kind = "raise" /\ isinstance_Exception(r.exc)
            THEN [kind |-> "return", value |-> fallback_result(ParallelAgents[i])]
            ELSE r]

\* lines 103-105: the three add_agent_result calls in order; storing into a
\* result that is no dict (an exception object that was not replaced) raises
\* TypeError and ends the merge
RECURSIVE merge_parallel(_, _, _, _)
merge_parallel(st, rs, i, t) ==
    IF i > 3 THEN [state |-> st, raised |-> None]
    ELSE IF rs[i].kind # "return" THEN [state |-> st, raised |-> Some("TypeError")]
    ELSE merge_parallel(add_agent_result(st, ParallelAgents[i], rs[i].value, t), rs, i + 1, t)

\* a variant whose call sites have no handler: every raise leaves the call site
guarded_unguarded(out, placeholder) ==
    IF out.kind = "return" THEN [raised |-> None, value |-> out.value]
    ELSE [raised |-> Some(out.exc), value |-> None]

\* the result of one awaited call guarded by try / except Exception
\* (lines 124-130, 139-145, 164-168, 180-186)
guarded(out, placeholder) ==
    IF out.kind = "return" THEN [raised |-> None, value |-> out.value]
    ELSE IF except_Exception(out.exc) THEN [raised |-> None, value |-> placeholder]
    ELSE [raised |-> Some(out.exc), value |-> None]

\* a variant whose success flag follows the post-mortem result
ResolvedSummary_follows_postmortem(l, st, t) ==
    [incident_id |-> l.incident_id,
     status |-> "resolved",
     method |-> "parallel_auto_remediation",
     success |-> st.agent_analyses["postmortem"].success,
     overall_confidence |-> l.overall_confidence,
     workflow_time_seconds |-> t - l.workflow_start,
     parallel_time_seconds |-> l.parallel_time,
     agent_results |-> dict_get(st, "agent_analyses", EmptyDict),
     total_agents_used |-> Cardinality(DOMAIN dict_get(st, "agent_analyses", EmptyDict))]

\* a variant whose summary is taken before the post-mortem result is merged
ResolvedSummary_before_postmortem(l, st, t) ==
    [incident_id |-> l.incident_id,
     status |-> "resolved",
     method |-> "parallel_auto_remediation",
     success |-> TRUE,
     overall_confidence |-> l.overall_confidence,
     workflow_time_seconds |-> t - l.workflow_start,
     parallel_time_seconds |-> l.parallel_time,
     agent_results |-> [a \in DOMAIN st.agent_analyses \ {"postmortem"} |->
                            st.agent_analyses[a]],
     total_agents_used |-> Cardinality(DOMAIN st.agent_analyses) - 1]

ResolvedSummary(l, st, t) ==
    [incident_id |-> l.incident_id,
     status |-> "resolved",
     method |-> "parallel_auto_remediation",
     success |-> TRUE,
     overall_confidence |-> l.overall_confidence,
     workflow_time_seconds |-> t - l.workflow_start,
     parallel_time_seconds |-> l.parallel_time,
     agent_results |-> dict_get(st, "agent_analyses", EmptyDict),
     total_agents_used |-> Cardinality(DOMAIN dict_get(st, "agent_analyses", EmptyDict))]

\* a variant that reports the failed remediation under a status of its own
FailedRemediationSummary_failed(l, st, t) ==
    [incident_id |-> l.incident_id,
     status |-> "failed",
     method |-> "failed_remediation",
     success |-> FALSE,
     overall_confidence |-> l.overall_confidence,
     workflow_time_seconds |-> t - l.workflow_start,
     parallel_time_seconds |-> l.parallel_time,
     agent_results |-> dict_get(st, "agent_analyses", EmptyDict)]

FailedRemediationSummary(l, st, t) ==
    [incident_id |-> l.incident_id,
     status |-> "escalated",
     method |-> "failed_remediation",
     success |-> FALSE,
     overall_confidence |-> l.overall_confidence,
     workflow_time_seconds |-> t - l.workflow_start,
     parallel_time_seconds |-> l.parallel_time,
     agent_results |-> dict_get(st, "agent_analyses", EmptyDict)]

\* a variant whose summary gives a reason of its own
EscalationSummary_unknown_reason(l, st, reason, t) ==
    [incident_id |-> l.incident_id,
     status |-> "escalated",
     method |-> "parallel_escalation",
     success |-> FALSE,
     reason |-> <<"Unknown escalation reason">>,
     overall_confidence |-> l.overall_confidence,
     workflow_time_seconds |-> t - l.workflow_start,
     parallel_time_seconds |-> l.parallel_time,
     agent_results |-> dict_get(st, "agent_analyses", EmptyDict)]

EscalationSummary(l, st, reason, t) ==
    [incident_id |-> l.incident_id,
     status |-> "escalated",
     method |-> "parallel_escalation",
     success |-> FALSE,
     reason |-> reason,
     overall_confidence |-> l.overall_confidence,
     workflow_time_seconds |-> t - l.workflow_start,
     parallel_time_seconds |-> l.parallel_time,
     agent_results |-> dict_get(st, "agent_analyses", EmptyDict)]

\* a variant that reports a message of its own
ErrorSummary_generic(l, exc, t) ==
    [incident_id |-> l.incident_id,
     status |-> "error",
     success |-> FALSE,
     error |-> "workflow failed",
     workflow_time_seconds |-> t - l.workflow_start]

ErrorSummary(l, exc, t) ==
    [incident_id |-> l.incident_id,
     status |-> "error",
     success |-> FALSE,
     error |-> exc,
     workflow_time_seconds |-> t - l.workflow_start]

----------------------------------------------------------------------------
(* The state machine of one process_incident call *)

\* what stands for the outcome of a call that has not finished
Pending == [kind |-> "pending"]

IdleTasks == [a \in Agents \cup {Executor} |-> [st |-> "idle", out |-> Pending]]

Invoke(tk, a) == [tk EXCEPT ![a] = [st |-> "running", out |-> Pending]]

Finish(tk, a, out) == [tk EXCEPT ![a] = [st |-> "done", out |-> out]]

NoProbe == [applied |-> FALSE, c |-> 0, r |-> 0, s |-> "P3"]

Init ==
    /\ pc = "idle"
    /\ incident_data = EmptyDict
    /\ threshold = DefaultThreshold
    /\ now = 0
    /\ state = EmptyDict
    /\ task = IdleTasks
    /\ locals = EmptyDict
    /\ metrics = InitialMetrics
    /\ result = None
    /\ probe = NoProbe

\* the clock advances while the call is in flight
Tick ==
    /\ pc \notin {"idle", "returned", "raised"}
    /\ now < MaxClock
    /\ now' = now + 1
    /\ UNCHANGED <<pc, incident_data, threshold, state, task, locals, metrics, result, probe>>

\* a variant that starts the call over after an error
OuterExcept_retry(exc, l) ==
    /\ pc' = "idle"
    /\ result' = None
    /\ locals' = l

\* the handler of line 260, or the exception leaving process_incident
\* when that handler does not catch it
OuterExcept(exc, l) ==
    IF except_Exception(exc)
    THEN /\ pc' = "returned"
         /\ result' = ErrorSummary(l, exc, now)
         /\ locals' = dict_update(l, [workflow_time |-> now - l.workflow_start])
    ELSE /\ pc' = "raised"
         /\ result' = None
         /\ locals' = dict_update(l, [propagated |-> exc])

\* lines 62-87: up to the await of asyncio.gather
Begin(data, random_id) ==
    /\ pc = "idle"
    /\ incident_data' = data
    /\ locals' = [incident_id |-> dict_get(data, "incident_id", "unknown"),
                  workflow_start |-> now,
                  parallel_start |-> now]
    /\ state' = create_incident_state(data, now, random_id)
    /\ task' = [a \in Agents \cup {Executor} |->
                    IF a \in ParallelSet THEN [st |-> "running", out |-> Pending] ELSE task[a]]
    /\ pc' = "gather"
    /\ UNCHANGED <<threshold, now, metrics, result, probe>>

\* one of the three gathered execute_async calls reaches its outcome
TaskFinish(a, env) ==
    /\ pc = "gather"
    /\ task[a].st = "running"
    /\ task' = Finish(task, a, execute_async(a, env, now))
    /\ UNCHANGED <<pc, incident_data, threshold, now, state, locals, metrics, result, probe>>

\* lines 88-125: gather returns; merge, aggregate, invoke remediation planning
Join ==
    /\ pc = "gather"
    /\ gather_ready(task)
    /\ LET merged == merge_parallel(state, convert_results(task), 1, now)
           l1 == dict_update(locals, [parallel_time |-> now - locals.parallel_start])
       IN  IF merged.raised # None
           THEN /\ state' = merged.state
                /\ task' = task
                /\ OuterExcept(merged.raised[1], l1)
           ELSE /\ state' = calculate_overall_confidence(merged.state)
                /\ locals' = dict_update(l1,
                        [overall_confidence |-> overall_confidence_value(merged.state)])
                /\ task' = Invoke(task, "remediation")
                /\ pc' = "remediation"
                /\ result' = result
    /\ UNCHANGED <<incident_data, threshold, now, metrics, probe>>

\* lines 124-140: remediation planning returns or raises; invoke communication
RemediationDone(env) ==
    /\ pc = "remediation"
    /\ LET out == execute_async("remediation", env, now)
           g == guarded(out, fallback_result("remediation"))
       IN  IF g.raised # None
           THEN /\ task' = Finish(task, "remediation", out)
                /\ state' = state
                /\ OuterExcept(g.raised[1], locals)
           ELSE /\ state' = add_agent_result(state, "remediation", g.value, now)
                /\ locals' = dict_update(locals,
                        [remediation_result |->
                            add_agent_result(state, "remediation", g.value, now)
                                .agent_analyses["remediation"]])
                /\ task' = Invoke(Finish(task, "remediation", out), "communication")
                /\ pc' = "communication"
                /\ result' = result
    /\ UNCHANGED <<incident_data, threshold, now, metrics, probe>>

\* lines 229-258: the escalate branch, up to the return
Escalate(st, l, m) ==
    LET reason == _get_escalation_reason(l.overall_confidence,
                        dict_get(l.remediation_result, "remediation_confidence", 0),
                        dict_get(st, "severity", "P3"), threshold)
        st1 == mark_incident_escalated(st, reason, now)
        workflow_time == now - l.workflow_start
    IN  /\ state' = st1
        /\ metrics' = _update_metrics(Increment(m, "escalated_count"), workflow_time)
        /\ locals' = dict_update(l, [escalation_reason |-> reason,
                                     workflow_time |-> workflow_time])
        /\ result' = EscalationSummary(l, st1, reason, now)
        /\ pc' = "returned"

\* a variant that escalates whenever communication planning failed
CommunicationDone_gated(env) ==
    /\ pc = "communication"
    /\ LET out == execute_async("communication", env, now)
           g == guarded(out, fallback_result("communication"))
           tk == Finish(task, "communication", out)
       IN  IF g.raised # None
           THEN /\ task' = tk
                /\ state' = state
                /\ metrics' = metrics
                /\ OuterExcept(g.raised[1], locals)
           ELSE LET st1 == add_agent_result(state, "communication", g.value, now)
                    should == /\ g.value.success
                              /\ _should_auto_remediate(locals.overall_confidence,
                                    dict_get(locals.remediation_result, "remediation_confidence", 0),
                                    dict_get(st1, "severity", "P3"), threshold)
                    l1 == dict_update(locals, [should_auto_remediate |-> should])
                IN  IF should
                    THEN /\ state' = st1
                         /\ locals' = l1
                         /\ task' = Invoke(tk, Executor)
                         /\ pc' = "execute"
                         /\ UNCHANGED <<metrics, result>>
                    ELSE /\ task' = tk
                         /\ Escalate(st1, l1, metrics)
    /\ UNCHANGED <<incident_data, threshold, now, probe>>

\* lines 139-165 and 224-258: communication planning returns or raises; decide;
\* then either invoke the remediation executor or escalate and return
CommunicationDone(env) ==
    /\ pc = "communication"
    /\ LET out == execute_async("communication", env, now)
           g == guarded(out, fallback_result("communication"))
           tk == Finish(task, "communication", out)
       IN  IF g.raised # None
           THEN /\ task' = tk
                /\ state' = state
                /\ metrics' = metrics
                /\ OuterExcept(g.raised[1], locals)
           ELSE LET st1 == add_agent_result(state, "communication", g.value, now)
                    should == _should_auto_remediate(locals.overall_confidence,
                                dict_get(locals.remediation_result, "remediation_confidence", 0),
                                dict_get(st1, "severity", "P3"), threshold)
                    l1 == dict_update(locals, [should_auto_remediate |-> should])
                IN  IF should
                    THEN /\ state' = st1
                         /\ locals' = l1
                         /\ task' = Invoke(tk, Executor)
                         /\ pc' = "execute"
                         /\ UNCHANGED <<metrics, result>>
                    ELSE /\ task' = tk
                         /\ Escalate(st1, l1, metrics)
    /\ UNCHANGED <<incident_data, threshold, now, probe>>

\* lines 164-181 and 205-223, 255-258: the executor returns or raises; on
\* success mark resolved and invoke the post-mortem, otherwise escalate and return
ExecutionDone(out) ==
    /\ pc = "execute"
    /\ LET g == guarded(out, [success |-> FALSE, error |-> "str(e)"])
           tk == Finish(task, Executor, out)
       IN  IF g.raised # None
           THEN /\ task' = tk
                /\ state' = state
                /\ metrics' = metrics
                /\ OuterExcept(g.raised[1], locals)
           ELSE LET l1 == dict_update(locals, [remediation_execution |-> g.value])
                IN  IF dict_get(g.value, "success", FALSE)
                    THEN /\ metrics' = Increment(metrics, "auto_remediated_count")
                         /\ state' = mark_incident_resolved(state, "parallel_auto_remediation", now)
                         /\ locals' = l1
                         /\ task' = Invoke(tk, "postmortem")
                         /\ pc' = "postmortem"
                         /\ result' = result
                    ELSE LET st1 == mark_incident_escalated(state,
                                        <<"Remediation execution failed">>, now)
                             workflow_time == now - locals.workflow_start
                         IN  /\ state' = st1
                             /\ metrics' = _update_metrics(
                                    Increment(metrics, "escalated_count"), workflow_time)
                             /\ locals' = dict_update(l1, [workflow_time |-> workflow_time])
                             /\ task' = tk
                             /\ result' = FailedRemediationSummary(locals, st1, now)
                             /\ pc' = "returned"
    /\ UNCHANGED <<incident_data, threshold, now, probe>>

\* lines 180-204, 255-258: the post-mortem returns or raises; return the summary
PostmortemDone(env) ==
    /\ pc = "postmortem"
    /\ LET out == execute_async("postmortem", env, now)
           g == guarded(out, fallback_result("postmortem"))
           tk == Finish(task, "postmortem", out)
       IN  IF g.raised # None
           THEN /\ task' = tk
                /\ state' = state
                /\ metrics' = metrics
                /\ OuterExcept(g.raised[1], locals)
           ELSE LET st1 == add_agent_result(state, "postmortem", g.value, now)
                    workflow_time == now - locals.workflow_start
                IN  /\ state' = st1
                    /\ task' = tk
                    /\ locals' = dict_update(locals, [workflow_time |-> workflow_time])
                    /\ result' = ResolvedSummary(locals, st1, now)
                    /\ metrics' = _update_metrics(metrics, workflow_time)
                    /\ pc' = "returned"
    /\ UNCHANGED <<incident_data, threshold, now, probe>>

Next ==
    \/ \E data \in IncidentInputs, random_id \in RandomIds : Begin(data, random_id)
    \/ \E a \in ParallelSet : \E env \in TaskEnvs(a) : TaskFinish(a, env)
    \/ Join
    \/ \E env \in TaskEnvs("remediation") : RemediationDone(env)
    \/ \E env \in TaskEnvs("communication") : CommunicationDone(env)
    \/ \E out \in ExecutionOutcomes : ExecutionDone(out)
    \/ \E env \in TaskEnvs("postmortem") : PostmortemDone(env)
    \/ Tick

Spec == Init /\ [][Next]_vars

\* The same call under fairness: every invoked task and the executor reach an
\* outcome, and the event loop resumes the coordinator whenever it can run.
\* The data are cut down (identifier given, one signal per parallel task, no
\* clock); every kind of outcome stays.
LiveInputs == { d \in IncidentInputs : "incident_id" \in DOMAIN d }

LiveEnvs(a) ==
    { env \in TaskEnvs(a) :
        (a \in ParallelSet /\ env.pre = "ok" /\ env.inner.kind = "return")
            => env.inner.value[SignalKey(a)] = 54 }

Progress ==
    \/ \E data \in LiveInputs, random_id \in RandomIds : Begin(data, random_id)
    \/ \E a \in ParallelSet : \E env \in LiveEnvs(a) : TaskFinish(a, env)
    \/ Join
    \/ \E env \in LiveEnvs("remediation") : RemediationDone(env)
    \/ \E env \in LiveEnvs("communication") : CommunicationDone(env)
    \/ \E out \in ExecutionOutcomes : ExecutionDone(out)
    \/ \E env \in LiveEnvs("postmortem") : PostmortemDone(env)

FairSpec == Init /\ [][Progress]_vars /\ WF_vars(Progress)

\* every step of the call but the completion of a parallel task
Coordinated ==
    \/ \E data \in LiveInputs, random_id \in RandomIds : Begin(data, random_id)
    \/ Join
    \/ \E env \in LiveEnvs("remediation") : RemediationDone(env)
    \/ \E env \in LiveEnvs("communication") : CommunicationDone(env)
    \/ \E out \in ExecutionOutcomes : ExecutionDone(out)
    \/ \E env \in LiveEnvs("postmortem") : PostmortemDone(env)

\* the call with a coordinator that always runs when it can, while a parallel
\* task may hang: nothing forces a running task to reach an outcome
HangSpec == Init /\ [][Progress]_vars /\ WF_vars(Coordinated)

----------------------------------------------------------------------------
(* The Decision Engine called on its own, for every input of a grid *)

ProbeConfidences == 0..60

ProbeRemediation == {0, 18, 36, 41, 42, 43, 60}

InitDecide ==
    /\ pc = "idle"
    /\ incident_data = EmptyDict
    /\ threshold \in Thresholds
    /\ now = 0
    /\ state = EmptyDict
    /\ task = IdleTasks
    /\ locals = EmptyDict
    /\ metrics = InitialMetrics
    /\ result = None
    /\ \E c \in ProbeConfidences, r \in ProbeRemediation, s \in Severities :
            probe = [applied |-> FALSE, c |-> c, r |-> r, s |-> s]

Decide ==
    /\ ~probe.applied
    /\ probe' = dict_update(probe,
            [applied |-> TRUE,
             auto |-> _should_auto_remediate(probe.c, probe.r, probe.s, threshold),
             reason |-> _get_escalation_reason(probe.c, probe.r, probe.s, threshold)])
    /\ UNCHANGED <<pc, incident_data, threshold, now, state, task, locals, metrics, result>>

NextDecide == Decide

SpecDecide == InitDecide /\ [][NextDecide]_vars

----------------------------------------------------------------------------
(* The Confidence Aggregator called on its own, for a grid of task results *)

\* the signals of the grid, in sixtieths: 0.0, 0.1, 0.6, 0.8, 0.9, 1.0
ProbeSignals == {0, 6, 36, 48, 54, 60}

\* what the mapping may hold for one task: no entry, a result without the
\* signal, or a result with a signal of the grid
ProbeResults(agent) ==
    {EmptyDict, agent :> [success |-> FALSE]}
    \cup { agent :> ((SignalKey(agent) :> s) @@ [success |-> TRUE]) : s \in ProbeSignals }

\* the results of the three parallel tasks
ProbeParallel ==
    { d @@ g @@ h : d \in ProbeResults("detective"),
                    g \in ProbeResults("diagnostics"),
                    h \in ProbeResults("historical") }

\* the results of the later tasks: none, some, all, with different signals
ProbeOthers ==
    { EmptyDict,
      "remediation" :> [remediation_confidence |-> 18, success |-> FALSE],
      ("remediation" :> [remediation_confidence |-> 42, success |-> TRUE])
        @@ ("communication" :> [communication_confidence |-> 48, success |-> TRUE]),
      ("remediation" :> [remediation_confidence |-> 60, success |-> TRUE])
        @@ ("communication" :> [communication_confidence |-> 60, success |-> TRUE])
        @@ ("postmortem" :> [documentation_confidence |-> 60, success |-> TRUE]) }

InitAggregate ==
    /\ pc = "idle"
    /\ incident_data = EmptyDict
    /\ threshold = DefaultThreshold
    /\ now = 0
    /\ state = EmptyDict
    /\ task = IdleTasks
    /\ locals = EmptyDict
    /\ metrics = InitialMetrics
    /\ result = None
    /\ \E p \in ProbeParallel, o1 \in ProbeOthers, o2 \in ProbeOthers :
            probe = [applied |-> FALSE, parallel |-> p, others |-> o1, others2 |-> o2]

\* calculate_overall_confidence on the same parallel results with either set
\* of later results
Aggregate ==
    /\ ~probe.applied
    /\ LET st1 == [agent_analyses |-> probe.parallel @@ probe.others, overall_confidence |-> 0]
           st2 == [agent_analyses |-> probe.parallel @@ probe.others2, overall_confidence |-> 0]
       IN  probe' = dict_update(probe,
                [applied |-> TRUE,
                 value |-> overall_confidence_value(st1),
                 record |-> calculate_overall_confidence(st1),
                 value2 |-> overall_confidence_value(st2)])
    /\ UNCHANGED <<pc, incident_data, threshold, now, state, task, locals, metrics, result>>

NextAggregate == Aggregate

SpecAggregate == InitAggregate /\ [][NextAggregate]_vars

----------------------------------------------------------------------------

(* The operations of src/core/state.py applied to one record in any order *)

MaxErrors == 2

\* results handed to add_agent_result: a placeholder or a returned result
RecordResults(agent) ==
    { fallback_result(agent),
      [agent |-> agent, success |-> TRUE, timestamp |-> isoformat(0)]
        @@ (SignalKey(agent) :> 54) }

InitRecord ==
    /\ pc = "record"
    /\ incident_data \in LiveInputs
    /\ threshold = DefaultThreshold
    /\ now = 0
    /\ \E random_id \in RandomIds :
            state = create_incident_state(incident_data, 0, random_id)
    /\ task = IdleTasks
    /\ locals = EmptyDict
    /\ metrics = InitialMetrics
    /\ result = None
    /\ probe = NoProbe

RecAddError(error_message, agent_name) ==
    /\ pc = "record"
    /\ Len(state.errors) < MaxErrors
    /\ state' = add_error(state, error_message, agent_name, now)
    /\ UNCHANGED <<pc, incident_data, threshold, now, task, locals, metrics, result, probe>>

RecAddAgentResult(agent_name, res) ==
    /\ pc = "record"
    /\ state' = add_agent_result(state, agent_name, res, now)
    /\ UNCHANGED <<pc, incident_data, threshold, now, task, locals, metrics, result, probe>>

RecCalculate ==
    /\ pc = "record"
    /\ state' = calculate_overall_confidence(state)
    /\ UNCHANGED <<pc, incident_data, threshold, now, task, locals, metrics, result, probe>>

RecResolve ==
    /\ pc = "record"
    /\ state' = mark_incident_resolved(state, "parallel_auto_remediation", now)
    /\ UNCHANGED <<pc, incident_data, threshold, now, task, locals, metrics, result, probe>>

RecEscalate(escalation_reason) ==
    /\ pc = "record"
    /\ state' = mark_incident_escalated(state, escalation_reason, now)
    /\ UNCHANGED <<pc, incident_data, threshold, now, task, locals, metrics, result, probe>>

NextRecord ==
    \/ RecAddError("timeout", None)
    \/ RecAddError("bad response", Some("detective"))
    \/ \E res \in RecordResults("detective") : RecAddAgentResult("detective", res)
    \/ RecCalculate
    \/ RecResolve
    \/ RecEscalate(<<"Remediation execution failed">>)
    \/ Tick

SpecRecord == InitRecord /\ [][NextRecord]_vars

----------------------------------------------------------------------------

(* The merge of the three parallel results in any order, after any order of *)
(* completion                                                               *)

\* the orders in which three results can be stored
MergeOrders ==
    { o \in [1..3 -> 1..3] : \A i, j \in 1..3 : (i # j) => (o[i] # o[j]) }

\* the add_agent_result calls of lines 103-105, taken in the given order
RECURSIVE merge_in_order(_, _, _, _, _)
merge_in_order(st, rs, order, i, t) ==
    IF i > 3 THEN [state |-> st, raised |-> None]
    ELSE IF rs[order[i]].kind # "return" THEN [state |-> st, raised |-> Some("TypeError")]
    ELSE merge_in_order(
            add_agent_result(st, ParallelAgents[order[i]], rs[order[i]].value, t),
            rs, order, i + 1, t)

\* lines 88-158 for the gathered outcomes: what the merge in the given order
\* leads to, for a plan confident enough and a severity that allows remediation
merge_outcome(envs, times, order, t, T) ==
    LET tk == [a \in ParallelSet |->
                    [st |-> "done", out |-> execute_async(a, envs[a], times[a])]]
        st0 == create_incident_state([service |-> "api", type |-> "high_cpu"], 0, "1A2B3C4D")
        merged == merge_in_order(st0, convert_results(tk), order, 1, t)
        value == overall_confidence_value(merged.state)
    IN  IF merged.raised # None
        THEN [raised |-> TRUE, overall_confidence |-> 0, should_auto_remediate |-> FALSE]
        ELSE [raised |-> FALSE,
              overall_confidence |-> value,
              should_auto_remediate |->
                  _should_auto_remediate(value, RemediationFloor, "P2", T)]

InitMerge ==
    /\ pc = "idle"
    /\ incident_data = EmptyDict
    /\ threshold = DefaultThreshold
    /\ now = 0
    /\ state = EmptyDict
    /\ task = IdleTasks
    /\ locals = EmptyDict
    /\ metrics = InitialMetrics
    /\ result = None
    /\ \E d \in TaskEnvs("detective"), g \in TaskEnvs("diagnostics"),
          h \in TaskEnvs("historical"),
          times \in [ParallelSet -> 0..MaxClock], order \in MergeOrders :
            probe = [applied |-> FALSE,
                     envs |-> ("detective" :> d) @@ ("diagnostics" :> g) @@ ("historical" :> h),
                     times |-> times,
                     order |-> order]

\* the same outcomes merged in the drawn order after the drawn completion
\* times, and in the order of the code with all tasks completing at once
MergeProbe ==
    /\ ~probe.applied
    /\ probe' = dict_update(probe,
            [applied |-> TRUE,
             drawn |-> merge_outcome(probe.envs, probe.times, probe.order,
                                     MaxClock, threshold),
             coded |-> merge_outcome(probe.envs, [a \in ParallelSet |-> 0],
                                     [i \in 1..3 |-> i], MaxClock, threshold)])
    /\ UNCHANGED <<pc, incident_data, threshold, now, state, task, locals, metrics, result>>

NextMerge == MergeProbe

SpecMerge == InitMerge /\ [][NextMerge]_vars

----------------------------------------------------------------------------

(* Two process_incident calls on the one workflow instance.  The event loop *)
(* runs one coroutine at a time and switches at an await; each coroutine    *)
(* has its own locals (incident_id, state, results, ...), the instance's    *)
(* metrics are shared.  The call in the variables is the one running, the   *)
(* other one is parked in probe.                                            *)

\* outcomes kept for the two calls: every task returns or faults
TwoEnvs(a) ==
    { env \in LiveEnvs(a) : env.pre = "raise" \/ env.inner.kind = "return" }

TwoExecutions == { o \in ExecutionOutcomes : o.kind = "return" }

\* the frame of a call that has not started
ParkedIdle ==
    [pc |-> "idle", incident_data |-> EmptyDict, state |-> EmptyDict,
     task |-> IdleTasks, locals |-> EmptyDict, result |-> None]

InitTwo ==
    /\ pc = "idle"
    /\ incident_data = EmptyDict
    /\ threshold = DefaultThreshold
    /\ now = 0
    /\ state = EmptyDict
    /\ task = IdleTasks
    /\ locals = EmptyDict
    /\ metrics = InitialMetrics
    /\ result = None
    /\ probe = ParkedIdle

\* a variant in which both calls work on one record
Switch_shared_record ==
    /\ pc' = probe.pc
    /\ incident_data' = probe.incident_data
    /\ state' = state
    /\ task' = probe.task
    /\ locals' = probe.locals
    /\ result' = probe.result
    /\ probe' = [pc |-> pc, incident_data |-> incident_data, state |-> state,
                 task |-> task, locals |-> locals, result |-> result]
    /\ UNCHANGED <<threshold, now, metrics>>

\* the event loop resumes the other call
Switch ==
    /\ pc' = probe.pc
    /\ incident_data' = probe.incident_data
    /\ state' = probe.state
    /\ task' = probe.task
    /\ locals' = probe.locals
    /\ result' = probe.result
    /\ probe' = [pc |-> pc, incident_data |-> incident_data, state |-> state,
                 task |-> task, locals |-> locals, result |-> result]
    /\ UNCHANGED <<threshold, now, metrics>>

NextTwo ==
    \/ \E data \in LiveInputs, random_id \in RandomIds : Begin(data, random_id)
    \/ \E a \in ParallelSet : \E env \in TwoEnvs(a) : TaskFinish(a, env)
    \/ Join
    \/ \E env \in TwoEnvs("remediation") : RemediationDone(env)
    \/ \E env \in TwoEnvs("communication") : CommunicationDone(env)
    \/ \E out \in TwoExecutions : ExecutionDone(out)
    \/ \E env \in TwoEnvs("postmortem") : PostmortemDone(env)
    \/ Switch

SpecTwo == InitTwo /\ [][NextTwo]_vars

----------------------------------------------------------------------------

(* mark_incident_resolved for every pair of creation and resolution times  *)

\* the latest clock reading of the grid, in half minutes
MaxStamp == 9

InitResolve ==
    /\ pc = "record"
    /\ incident_data = [service |-> "api", type |-> "high_cpu"]
    /\ threshold = DefaultThreshold
    /\ now = 0
    /\ \E created \in 0..MaxStamp, t \in 0..MaxStamp :
            /\ probe = [applied |-> FALSE, created |-> created, t |-> t]
            /\ state = create_incident_state(incident_data, created, "1A2B3C4D")
    /\ task = IdleTasks
    /\ locals = EmptyDict
    /\ metrics = InitialMetrics
    /\ result = None

\* the record created at probe.created is resolved when the clock reads
\* probe.t; datetime.now() is wall-clock time and may read less than before
ResolveProbe ==
    /\ ~probe.applied
    /\ state' = mark_incident_resolved(state, "parallel_auto_remediation", probe.t)
    /\ probe' = dict_update(probe, [applied |-> TRUE])
    /\ UNCHANGED <<pc, incident_data, threshold, now, task, locals, metrics, result>>

NextResolve == ResolveProbe

SpecResolve == InitResolve /\ [][NextResolve]_vars

----------------------------------------------------------------------------

(* Vocabulary of the properties *)

Returned == pc = "returned"

\* the call of agent a (or of the executor) has finished with ...
Done(a) == task[a].st = "done"

\* ... a fault: an Exception raised out of the invocation
Faulted(a) == Done(a) /\ task[a].out.kind = "raise" /\ task[a].out.exc = "Exception"

\* ... a cancellation: a BaseException that is no Exception
Cancelled(a) == Done(a) /\ task[a].out.kind = "raise" /\ task[a].out.exc = "CancelledError"

\* ... a reported failure: a result whose success flag is false
ReportedFailure(a) ==
    Done(a) /\ task[a].out.kind = "return" /\ ~task[a].out.value.success

SomeCancelled == \E a \in Agents \cup {Executor} : Cancelled(a)

Merged(a) == pc # "idle" /\ a \in DOMAIN state.agent_analyses

RemediationConfidence ==
    dict_get(locals.remediation_result, "remediation_confidence", 0)

----------------------------------------------------------------------------
(* C1: whatever the tasks do, a summary returned by process_incident has    *)
(* status resolved, escalated or error.                                     *)
C1_StatusInRange ==
    Returned => result.status \in {"resolved", "escalated", "error"}

C1_Witness ==
    Returned /\ result.status = "escalated" /\ result.method = "failed_remediation"

(* C2: provided every invoked task and the executor reach an outcome (the   *)
(* fairness of FairSpec), every call ends; it ends by returning a summary   *)
(* unless an awaited call was cancelled (CancelledError is no Exception and *)
(* no fault of a task); no fault leaves process_incident; a summary with    *)
(* status error carries the diagnostic message.                             *)
C2_AlwaysAnswered ==
    /\ <>(Returned \/ pc = "raised")
    /\ [](pc = "raised" => SomeCancelled)
    /\ []((Returned /\ result.status = "error") => "error" \in DOMAIN result)

C2_Witness ==
    /\ Returned /\ result.status = "error" /\ result.error = "TypeError"
    /\ \E a \in ParallelSet : Faulted(a)

(* C3: join barrier.  While any of the three parallel tasks has not reached *)
(* its outcome the coordinator is still waiting at gather: no parallel      *)
(* result is merged, no overall confidence is computed, remediation         *)
(* planning is not invoked.                                                 *)
C3_JoinBarrier ==
    (pc # "idle" /\ \E a \in ParallelSet : ~Done(a)) =>
        /\ pc = "gather"
        /\ DOMAIN state.agent_analyses = {}
        /\ state.overall_confidence = 0
        /\ "overall_confidence" \notin DOMAIN locals
        /\ task["remediation"].st = "idle"

C3_Witness ==
    /\ pc = "gather"
    /\ Done("detective") /\ Done("historical") /\ ~Done("diagnostics")
    /\ Faulted("detective")

(* C4: failure isolation.  A fault of a parallel task leaves its siblings   *)
(* running and the coordinator waiting; unless some call is cancelled, the  *)
(* workflow then goes on through remediation planning and communication     *)
(* planning to the decision, with all three parallel results merged, and    *)
(* never ends without having decided.                                       *)
ReachedDeciding ==
    /\ "should_auto_remediate" \in DOMAIN locals
    /\ \A a \in ParallelSet : Done(a) /\ Merged(a)
    /\ Merged("remediation") /\ Merged("communication")

SomeParallelFault == \E a \in ParallelSet : Faulted(a)

C4_FaultIsolated ==
    /\ [][\A a \in ParallelSet :
            (~Done(a) /\ Faulted(a)') =>
                /\ pc' = "gather"
                /\ \A b \in ParallelSet \ {a} : task'[b] = task[b]]_vars
    /\ []((SomeParallelFault /\ pc \in {"returned", "raised"} /\ ~SomeCancelled)
            => ReachedDeciding)
    /\ [](SomeParallelFault => <>(ReachedDeciding \/ SomeCancelled))

C4_Witness ==
    /\ Faulted("diagnostics") /\ ~Faulted("detective") /\ ~Faulted("historical")
    /\ ReachedDeciding
    /\ state.agent_analyses["detective"].success
    /\ state.agent_analyses["historical"].success
    /\ ~state.agent_analyses["diagnostics"].success

\* the signal the aggregator is expected to read for parallel task b: the
\* fallback 0.5 after a fault, else the signal the task returned, else none
ExpectedSignal(b) ==
    IF Faulted(b) THEN 30
    ELSE IF task[b].out.kind = "return" /\ SignalKey(b) \in DOMAIN task[b].out.value
         THEN task[b].out.value[SignalKey(b)]
         ELSE 0

\* the aggregator has run: Join stored the value it returned
Aggregated == pc # "idle" /\ "overall_confidence" \in DOMAIN locals

FaultedTasks == {a \in Agents : Faulted(a)}

(* C6, as stated: every fault of a task appends one error entry naming the  *)
(* task to the record: when the call has returned after k invocations       *)
(* faulted, the error list has k entries, each naming a faulted task.       *)
C6_ErrorEntryPerFault ==
    Returned =>
        /\ Len(state.errors) = Cardinality(FaultedTasks)
        /\ \A i \in 1..Len(state.errors) :
                \E a \in FaultedTasks : state.errors[i].agent = Some(a)

(* C7: decision rule.  For every c, r, severity and threshold the Decision  *)
(* Engine chooses auto-remediate exactly when the severity is not P0,       *)
(* c >= threshold and r >= 0.7 (42 sixtieths), bounds included.             *)
C7_DecisionRule ==
    probe.applied =>
        (probe.auto <=> (probe.s # "P0" /\ probe.c >= threshold /\ probe.r >= 42))

C7_Witness ==
    probe.applied /\ probe.auto /\ probe.c = threshold /\ probe.r = 42 /\ probe.s = "P1"

(* C8: escalation reason, first match wins: P0 gives the human-oversight    *)
(* reason whatever c and r are; otherwise c below the threshold gives the   *)
(* low-overall-confidence reason showing c; otherwise r below 0.7 gives the *)
(* low-remediation-confidence reason showing r; otherwise the reason is     *)
(* the unknown one.  A shown value v (hundredths) is x to two decimals:     *)
(* |v/100 - x/60| <= 0.005.                                                 *)
Shows(v, x) == 6 * v - 10 * x <= 3 /\ 10 * x - 6 * v <= 3

C8_ReasonFirstMatch ==
    probe.applied =>
        /\ probe.s = "P0" =>
                probe.reason = <<"P0 severity - requires human oversight">>
        /\ (probe.s # "P0" /\ probe.c < threshold) =>
                /\ Len(probe.reason) = 2
                /\ probe.reason[1] = "Low overall confidence"
                /\ Shows(probe.reason[2], probe.c)
        /\ (probe.s # "P0" /\ probe.c >= threshold /\ probe.r < 42) =>
                /\ Len(probe.reason) = 2
                /\ probe.reason[1] = "Low remediation confidence"
                /\ Shows(probe.reason[2], probe.r)
        /\ (probe.s # "P0" /\ probe.c >= threshold /\ probe.r >= 42) =>
                probe.reason = <<"Unknown escalation reason">>

C8_Witness ==
    /\ probe.applied /\ probe.s = "P0" /\ probe.c < threshold /\ probe.r < 42
    /\ probe.reason = <<"P0 severity - requires human oversight">>

(* C9: a P0 incident is never auto-remediated: the remediation executor is  *)
(* never invoked, the post-mortem task never runs and neither the record    *)
(* nor the summary is ever resolved.                                        *)
C9_P0NeverAutoRemediated ==
    (pc # "idle" /\ state.severity = "P0") =>
        /\ task[Executor].st = "idle"
        /\ task["postmortem"].st = "idle"
        /\ state.status # "resolved"
        /\ Returned => result.status # "resolved"

C9_Witness ==
    /\ Returned /\ state.severity = "P0"
    /\ result.status = "escalated"
    /\ locals.overall_confidence >= threshold
    /\ RemediationConfidence >= 42

(* C10: when the remediation executor reports failure the call returns      *)
(* status escalated, the record is escalated with the reason                *)
(* "Remediation execution failed", no resolution timestamp, method or       *)
(* duration is set and the post-mortem task does not run.                   *)
C10_FailedExecutionEscalates ==
    ReportedFailure(Executor) =>
        /\ Returned
        /\ result.status = "escalated"
        /\ state.status = "escalated"
        /\ dict_get(state, "escalation_reason", None) = <<"Remediation execution failed">>
        /\ state.resolved_at = None
        /\ state.resolution_method = None
        /\ state.resolution_time_minutes = None
        /\ task["postmortem"].st = "idle"
        /\ ~Merged("postmortem")

C10_Witness ==
    ReportedFailure(Executor) /\ Returned /\ now > 0

\* the Decision Engine has chosen (line 154)
Decided == pc # "idle" /\ "should_auto_remediate" \in DOMAIN locals

(* C11: when the Decision Engine chooses escalate the call returns at once: *)
(* the record is escalated with the reason the engine gives for the values  *)
(* it decided on, the summary carries the same reason, and neither the      *)
(* remediation executor nor the post-mortem task is invoked; the executor   *)
(* is invoked only after the engine chose auto-remediate.                   *)
C11_EscalateBranch ==
    /\ (Decided /\ ~locals.should_auto_remediate) =>
            /\ Returned
            /\ state.status = "escalated"
            /\ state.escalation_reason =
                    _get_escalation_reason(locals.overall_confidence, RemediationConfidence,
                                           state.severity, threshold)
            /\ result.status = "escalated"
            /\ result.reason = state.escalation_reason
            /\ task[Executor].st = "idle"
            /\ task["postmortem"].st = "idle"
            /\ ~Merged("postmortem")
    /\ task[Executor].st # "idle" => (Decided /\ locals.should_auto_remediate)

C11_Witness ==
    /\ Decided /\ ~locals.should_auto_remediate
    /\ Returned
    /\ state.severity = "P2"
    /\ result.reason[1] = "Low remediation confidence"
    /\ task[Executor].st = "idle"

\* the call of a has returned a result whose success flag is true
ReportedSuccess(a) ==
    Done(a) /\ task[a].out.kind = "return" /\ dict_get(task[a].out.value, "success", FALSE)

(* C12, as stated: when the remediation executor reports success the record *)
(* is resolved with resolution method "auto_remediation" and the summary    *)
(* has status resolved, method "auto_remediation" and success true.         *)
C12_ResolvedAutoRemediation ==
    ReportedSuccess(Executor) =>
        /\ state.status = "resolved"
        /\ state.resolution_method = Some("auto_remediation")
        /\ Returned =>
            /\ result.status = "resolved"
            /\ result.method = "auto_remediation"
            /\ result.success

(* C12, amended: when the remediation executor reports success the record   *)
(* is resolved with resolution method "parallel_auto_remediation" and the   *)
(* summary, once returned, has status resolved, method                      *)
(* "parallel_auto_remediation" and success true.                            *)
C12_ResolvedParallelAutoRemediation ==
    ReportedSuccess(Executor) =>
        /\ state.status = "resolved"
        /\ state.resolution_method = Some("parallel_auto_remediation")
        /\ Returned =>
            /\ result.status = "resolved"
            /\ result.method = "parallel_auto_remediation"
            /\ result.success

C12_Witness ==
    /\ ReportedSuccess(Executor)
    /\ Returned
    /\ result.method = "parallel_auto_remediation"
    /\ state.resolved_at # None

(* C13: whatever the post-mortem task returns or raises, the outcome stays  *)
(* resolved: from its invocation on the record's status is resolved, and    *)
(* once the task has returned or faulted the call returns a summary with    *)
(* status resolved and success true.                                        *)
C13_PostmortemCannotUnresolve ==
    /\ task["postmortem"].st # "idle" => state.status = "resolved"
    /\ (Done("postmortem") /\ ~Cancelled("postmortem")) =>
            /\ Returned
            /\ result.status = "resolved"
            /\ result.success
            /\ Merged("postmortem")

C13_Witness ==
    /\ Faulted("postmortem")
    /\ Returned
    /\ result.status = "resolved"
    /\ ~state.agent_analyses["postmortem"].success

\* what the Decision Engine chooses for the values fixed before communication
\* planning is awaited: the aggregated confidence, the remediation confidence
\* and the severity of the input
ChoiceBeforeCommunication ==
    _should_auto_remediate(locals.overall_confidence, RemediationConfidence,
                           dict_get(incident_data, "severity", "P3"), threshold)

ReasonBeforeCommunication ==
    _get_escalation_reason(locals.overall_confidence, RemediationConfidence,
                           dict_get(incident_data, "severity", "P3"), threshold)

(* C14: communication planning never influences the outcome.  The step that *)
(* receives its outcome changes none of the values the Decision Engine      *)
(* reads; the choice, and the status, method and escalation reason of the   *)
(* summary, are functions of those values and of the executor's report      *)
(* alone, so two executions that differ only in the outcome of              *)
(* communication planning agree on them; a failure of communication         *)
(* planning is recorded in the task results.                                *)
C14_CommunicationNeverDecides ==
    /\ [][(pc = "communication" /\ pc' \in {"execute", "returned"}) =>
            /\ locals'.overall_confidence = locals.overall_confidence
            /\ locals'.remediation_result = locals.remediation_result
            /\ state'.severity = state.severity
            /\ state'.severity = dict_get(incident_data, "severity", "P3")
            /\ locals'.should_auto_remediate = ChoiceBeforeCommunication
            /\ (pc' = "returned") = ~ChoiceBeforeCommunication]_vars
    /\ []((Returned /\ Merged("communication")) =>
            /\ locals.should_auto_remediate = ChoiceBeforeCommunication
            /\ result.status =
                    (IF ChoiceBeforeCommunication /\ ReportedSuccess(Executor)
                     THEN "resolved" ELSE "escalated")
            /\ result.method =
                    (IF ~ChoiceBeforeCommunication THEN "parallel_escalation"
                     ELSE IF ReportedSuccess(Executor) THEN "parallel_auto_remediation"
                     ELSE "failed_remediation")
            /\ state.status = result.status
            /\ ~ChoiceBeforeCommunication =>
                    /\ result.reason = ReasonBeforeCommunication
                    /\ state.escalation_reason = ReasonBeforeCommunication
            /\ (ChoiceBeforeCommunication /\ ~ReportedSuccess(Executor)) =>
                    state.escalation_reason = <<"Remediation execution failed">>)
    /\ []((Merged("communication")
            /\ (Faulted("communication") \/ ReportedFailure("communication"))) =>
                ~state.agent_analyses["communication"].success)

C14_Witness ==
    /\ Returned /\ Merged("communication")
    /\ Faulted("communication")
    /\ result.status = "resolved"
    /\ ~state.agent_analyses["communication"].success

\* the phases in their order; both ways of ending come last
PhaseRank(p) ==
    CASE p = "idle"          -> 0
      [] p = "gather"        -> 1
      [] p = "remediation"   -> 2
      [] p = "communication" -> 3
      [] p = "execute"       -> 4
      [] p = "postmortem"    -> 5
      [] OTHER               -> 6

\* how far the call of a task has come
CallRank(s) == IF s = "idle" THEN 0 ELSE IF s = "running" THEN 1 ELSE 2

(* C15: phases only move forward.  Parallel analysis, remediation planning, *)
(* communication planning and the decision come in this order, followed by  *)
(* auto-remediation or escalation; no phase is entered again, every task    *)
(* and the executor is invoked at most once and keeps its outcome, and the  *)
(* record's retry_count stays 0.                                            *)
C15_PhasesForward ==
    /\ [][/\ PhaseRank(pc') >= PhaseRank(pc)
          /\ pc' # pc => PhaseRank(pc') > PhaseRank(pc)
          /\ \A a \in Agents \cup {Executor} :
                /\ CallRank(task'[a].st) >= CallRank(task[a].st)
                /\ task[a].st = "done" => task'[a] = task[a]]_vars
    /\ [](pc # "idle" => state.retry_count = 0)
    /\ [](task["remediation"].st # "idle" => \A a \in ParallelSet : Done(a) /\ Merged(a))
    /\ [](task["communication"].st # "idle" => Done("remediation") /\ Merged("remediation"))
    /\ [](Decided => Done("communication") /\ Merged("communication"))
    /\ [](task[Executor].st # "idle" => Decided /\ locals.should_auto_remediate)
    /\ [](task["postmortem"].st # "idle" => Done(Executor) /\ state.status = "resolved")
    /\ []((Decided /\ ~locals.should_auto_remediate) => state.status = "escalated")

C15_Witness ==
    /\ Returned
    /\ \A a \in Agents \cup {Executor} : Done(a)
    /\ state.retry_count = 0
    /\ result.status = "resolved"

\* the signal of parallel task a in the probed mapping, a missing one being 0.0
ProbedSignal(a) ==
    dict_get(dict_get(probe.parallel @@ probe.others, a, EmptyDict), SignalKey(a), 0)

C17_OnlyParallelSignalsCount ==
    probe.applied => probe.value = probe.value2

C17_Witness ==
    /\ probe.applied
    /\ probe.others = EmptyDict
    /\ DOMAIN probe.others2 = {"remediation", "communication", "postmortem"}
    /\ DOMAIN probe.parallel = {"detective"}
    /\ probe.value = 36
    /\ probe.value2 = 36

(* C18: the overall confidence is computed once, by the step that follows   *)
(* the merge of all three parallel results, and the record holds the value  *)
(* computed; until then the record holds its initial 0.0; afterwards no     *)
(* step (remediation planning, communication planning, decision, execution, *)
(* documentation) changes the value or the record's field, and the summary  *)
(* returned carries the record's value.                                     *)
C18_ConfidenceComputedOnce ==
    /\ [][Aggregated =>
            /\ Aggregated'
            /\ locals'.overall_confidence = locals.overall_confidence
            /\ state'.overall_confidence = state.overall_confidence]_vars
    /\ [][(~Aggregated /\ Aggregated') =>
            /\ pc = "gather" /\ pc' = "remediation"
            /\ locals'.overall_confidence = overall_confidence_value(state')]_vars
    /\ []((pc # "idle" /\ ~Aggregated) => state.overall_confidence = 0)
    /\ [](Aggregated =>
            /\ \A a \in ParallelSet : Done(a) /\ Merged(a)
            /\ state.overall_confidence = locals.overall_confidence)
    /\ []((Returned /\ Aggregated) =>
            /\ "overall_confidence" \in DOMAIN result
            /\ result.overall_confidence = state.overall_confidence)

C18_Witness ==
    /\ Returned /\ Aggregated
    /\ Done("postmortem")
    /\ state.overall_confidence = 45
    /\ result.overall_confidence = 45

(* C19, as stated: in every state of the record the completion flag is true *)
(* exactly when the status is resolved, escalated or error; in particular   *)
(* a call that returns status error leaves the record with status error and *)
(* the completion flag true.                                                *)
C19_CompleteIffTerminalStatus ==
    pc # "idle" =>
        /\ state.workflow_complete <=> state.status \in {"resolved", "escalated", "error"}
        /\ (Returned /\ result.status = "error") =>
                (state.status = "error" /\ state.workflow_complete)

(* C20, as stated: once the record's completion flag is true no field of    *)
(* the record, the task results and the last-modified timestamp included,   *)
(* is changed again during the call.                                        *)
C20_FrozenOnceComplete ==
    [][(pc # "idle" /\ state.workflow_complete) => state' = state]_vars

(* C21: every entry of the task results has a timestamp and carries the     *)
(* name of the task it is stored under, whether the task succeeded,         *)
(* reported a failure or faulted; a faulted task leaves a placeholder       *)
(* failure entry, so once the parallel results are merged all three         *)
(* parallel tasks have an entry; no entry is ever removed.                  *)
C21_TaskResultsStamped ==
    /\ [](pc # "idle" =>
            \A k \in DOMAIN state.agent_analyses :
                /\ "timestamp" \in DOMAIN state.agent_analyses[k]
                /\ state.agent_analyses[k].agent = k)
    /\ [](Aggregated =>
            /\ ParallelSet \subseteq DOMAIN state.agent_analyses
            /\ \A a \in ParallelSet :
                    (Faulted(a) \/ ReportedFailure(a)) =>
                        /\ ~state.agent_analyses[a].success
                        /\ "error" \in DOMAIN state.agent_analyses[a])
    /\ [][pc # "idle" =>
            DOMAIN state.agent_analyses \subseteq DOMAIN state'.agent_analyses]_vars

C21_Witness ==
    /\ Aggregated
    /\ Faulted("detective")
    /\ ReportedFailure("diagnostics")
    /\ ReportedSuccess("historical")
    /\ DOMAIN state.agent_analyses = Agents
    /\ \A k \in Agents : state.agent_analyses[k].agent = k

(* C22: the error list is append-only.  Whatever operation is applied to a  *)
(* record (add_error, add_agent_result, calculate_overall_confidence,       *)
(* mark_incident_resolved, mark_incident_escalated), every error entry      *)
(* already in the list stays, unchanged and at its position.                *)
C22_ErrorsAppendOnly ==
    [][pc = "record" =>
        /\ Len(state'.errors) >= Len(state.errors)
        /\ \A i \in 1..Len(state.errors) : state'.errors[i] = state.errors[i]]_vars

C22_Witness ==
    /\ pc = "record"
    /\ Len(state.errors) = 2
    /\ state.errors[1].message = "timeout"
    /\ state.errors[2].message = "bad response"
    /\ state.status = "escalated"
    /\ "detective" \in DOMAIN state.agent_analyses
    /\ state.overall_confidence > 0

\* the three fields of the resolution metadata
ResolutionFields == {"resolved_at", "resolution_method", "resolution_time_minutes"}

(* C23: the resolution metadata (timestamp, method, duration) is set on the *)
(* record exactly when its status is resolved, all three together; an       *)
(* escalation reason is present exactly when its status is escalated; no    *)
(* record carries both.                                                     *)
C23_MetadataMatchesStatus ==
    pc # "idle" =>
        /\ state.status = "resolved" => \A f \in ResolutionFields : state[f] # None
        /\ state.status # "resolved" => \A f \in ResolutionFields : state[f] = None
        /\ ("escalation_reason" \in DOMAIN state) <=> (state.status = "escalated")
        /\ ~(/\ \E f \in ResolutionFields : state[f] # None
             /\ "escalation_reason" \in DOMAIN state)

C23_Witness ==
    /\ Returned
    /\ state.status = "resolved"
    /\ state.resolved_at = isoformat(1)
    /\ state.resolution_method = Some("parallel_auto_remediation")
    /\ state.resolution_time_minutes = Some(0)
    /\ "escalation_reason" \notin DOMAIN state

\* the call ended in the handler of line 260
ReturnedError == Returned /\ result.status = "error"

(* C24: a fault that escapes the per-task isolation is caught once, by the  *)
(* outermost handler: the call stops there (no task is invoked afterwards,  *)
(* no phase is run again) and returns a summary with status error, success  *)
(* false, the message of the fault and the elapsed workflow time.           *)
C24_OuterHandler ==
    /\ [][(pc # "returned" /\ ReturnedError') =>
            /\ pc = "gather"
            /\ merge_parallel(state, convert_results(task), 1, now).raised # None
            /\ result'.error = merge_parallel(state, convert_results(task), 1, now).raised[1]
            /\ result'.workflow_time_seconds = now - locals.workflow_start
            /\ task' = task]_vars
    /\ [](ReturnedError =>
            /\ ~result.success
            /\ result.error = "TypeError"
            /\ result.workflow_time_seconds = now - locals.workflow_start
            /\ \A a \in (Agents \ ParallelSet) \cup {Executor} : task[a].st = "idle"
            /\ \A a \in ParallelSet : Done(a))
    /\ [][ReturnedError => UNCHANGED vars]_vars

C24_Witness ==
    /\ ReturnedError
    /\ Cancelled("diagnostics")
    /\ result.error = "TypeError"
    /\ result.workflow_time_seconds = 1
    /\ DOMAIN state.agent_analyses = {"detective"}

\* the fields every summary is said to contain
SummaryFields ==
    {"incident_id", "status", "method", "success", "overall_confidence",
     "workflow_time_seconds", "parallel_time_seconds", "agent_results"}

(* C25, as stated: every summary returned, whatever its status (resolved,   *)
(* escalated by the decision, escalated after a failed remediation, error), *)
(* contains the incident id, status, method, success flag, overall          *)
(* confidence, workflow duration, parallel-phase duration and the full      *)
(* task-result mapping.                                                     *)
C25_SummaryComplete ==
    Returned =>
        /\ SummaryFields \subseteq DOMAIN result
        /\ result.agent_results = state.agent_analyses

(* C26: for fixed outcomes of the three parallel tasks, the order in which  *)
(* they complete and the order in which their results are merged do not     *)
(* matter: every order gives the overall confidence, the decision and the   *)
(* ending (error or not, hence the final status) that the order of the code *)
(* gives.                                                                   *)
C26_OrderIrrelevant ==
    probe.applied => probe.drawn = probe.coded

C26_Witness ==
    /\ probe.applied
    /\ probe.order = <<3, 1, 2>>
    /\ probe.times["detective"] = 1 /\ probe.times["historical"] = 0
    /\ probe.envs["detective"].pre = "raise"
    /\ ~probe.drawn.raised
    /\ probe.drawn.overall_confidence = 40
    /\ probe.drawn.should_auto_remediate

\* the entry a call running alone stores for task a: the result the task
\* returned, or the placeholder after a fault, stamped by add_agent_result
ExpectedEntry(a) ==
    dict_update(IF task[a].out.kind = "return" THEN task[a].out.value
                ELSE fallback_result(a),
                [timestamp |-> isoformat(now), agent |-> a])

\* the summary is the one the call gives when it runs alone with the same
\* outcomes of its own tasks
SummaryAsAlone ==
    LET n == Cardinality({b \in ParallelSet : ExpectedSignal(b) > 0})
        total == ExpectedSignal("detective") + ExpectedSignal("diagnostics")
                    + ExpectedSignal("historical")
    IN  /\ result.incident_id = incident_data.incident_id
        /\ state.severity = dict_get(incident_data, "severity", "P3")
        /\ IF n = 0 THEN result.overall_confidence = 0
                    ELSE result.overall_confidence * n = total
        /\ result.status =
                (IF ChoiceBeforeCommunication /\ ReportedSuccess(Executor)
                 THEN "resolved" ELSE "escalated")
        /\ DOMAIN result.agent_results = {a \in Agents : Done(a)}
        /\ \A a \in DOMAIN result.agent_results :
                result.agent_results[a] = ExpectedEntry(a)
        /\ task[Executor].st # "idle" <=> ChoiceBeforeCommunication

(* C27: two calls interleaved on the shared workflow instance are           *)
(* independent in their incident state.  A step of the running call leaves  *)
(* the frame of the other call (its record, its task results, its locals    *)
(* and its summary) as it was, a switch only exchanges the two frames, and  *)
(* the status, overall confidence and task results of every summary are     *)
(* those the call gives running alone with the same task outcomes.          *)
C27_CallsIndependent ==
    /\ [][\/ probe' = probe
          \/ /\ probe' = [pc |-> pc, incident_data |-> incident_data, state |-> state,
                          task |-> task, locals |-> locals, result |-> result]
             /\ state' = probe.state /\ task' = probe.task
             /\ locals' = probe.locals /\ result' = probe.result
             /\ pc' = probe.pc /\ incident_data' = probe.incident_data]_vars
    /\ [](Returned => SummaryAsAlone)

C27_Witness ==
    /\ Returned /\ result.status = "resolved"
    /\ probe.pc = "returned" /\ probe.result.status = "escalated"
    /\ metrics.total_incidents_handled = 2
    /\ Faulted("historical")
    /\ probe.task["detective"].out.kind = "raise"
    /\ probe.state.severity = "P2"
    /\ state.severity = "P2"

(* C28: there is no timeout and no cancellation.  While a parallel task has *)
(* not reached its outcome the only steps are completions of parallel       *)
(* tasks; if one of them never reaches an outcome the call stays at the     *)
(* join forever, never starts remediation planning and never returns, even  *)
(* when the other two tasks are done and the coordinator is scheduled       *)
(* fairly.                                                                  *)
C28_HungTaskBlocksJoin ==
    /\ [][(pc = "gather" /\ \E a \in ParallelSet : ~Done(a)) =>
            /\ pc' = "gather"
            /\ state' = state /\ result' = result /\ locals' = locals
            /\ \A a \in ParallelSet : Done(a) => task'[a] = task[a]]_vars
    /\ \A a \in ParallelSet :
            ([]~Done(a)) =>
                [](/\ pc \in {"idle", "gather"}
                   /\ task["remediation"].st = "idle"
                   /\ result = None)

C28_Witness ==
    /\ pc = "gather"
    /\ ReportedSuccess("detective") /\ ReportedSuccess("diagnostics")
    /\ task["historical"].st = "running"
    /\ task["remediation"].st = "idle"
    /\ result = None

(* C29, as stated: when a record is marked resolved, its                    *)
(* resolution_time_minutes is the whole-minute floor of the resolved        *)
(* timestamp minus the created timestamp, for every pair of timestamps      *)
(* (times in half minutes: the floor of half their difference).             *)
C29_DurationIsFloor ==
    probe.applied =>
        /\ state.resolved_at = isoformat(probe.t)
        /\ state.created_at = isoformat(probe.created)
        /\ state.resolution_time_minutes = Some((probe.t - probe.created) \div 2)

(* C30: the post-mortem task is invoked exactly when the remediation        *)
(* executor reported success, and only once the record is resolved; the     *)
(* task results of a returned summary hold a postmortem entry exactly when  *)
(* the status is resolved: six entries when resolved, five when escalated.  *)
C30_PostmortemIffResolved ==
    /\ [](task["postmortem"].st # "idle" <=> ReportedSuccess(Executor))
    /\ [](task["postmortem"].st # "idle" => state.status = "resolved")
    /\ [][(task["postmortem"].st = "idle" /\ task'["postmortem"].st # "idle") =>
            /\ state'.status = "resolved"
            /\ state'.resolved_at # None]_vars
    /\ []((Returned /\ result.status # "error") =>
            /\ ("postmortem" \in DOMAIN result.agent_results) <=> (result.status = "resolved")
            /\ Cardinality(DOMAIN result.agent_results) =
                    (IF result.status = "resolved" THEN 6 ELSE 5)
            /\ result.status = "resolved" => result.total_agents_used = 6)

C30_Witness ==
    /\ Returned
    /\ result.status = "resolved"
    /\ ReportedSuccess(Executor)
    /\ DOMAIN result.agent_results = Agents
    /\ ReportedSuccess("postmortem")


(* C31: a fault raised by the remediation executor is isolated and treated  *)
(* as a reported failure: the call returns status escalated with method     *)
(* failed_remediation, never status error and never status resolved, and    *)
(* the record is escalated with the reason of a failed execution.           *)
C31_ExecutorFaultIsolated ==
    Faulted(Executor) =>
        /\ Returned
        /\ result.status = "escalated"
        /\ result.method = "failed_remediation"
        /\ ~result.success
        /\ state.status = "escalated"
        /\ dict_get(state, "escalation_reason", None) = <<"Remediation execution failed">>
        /\ locals.remediation_execution = [success |-> FALSE, error |-> "str(e)"]
        /\ task["postmortem"].st = "idle"

C31_Witness ==
    /\ Faulted(Executor)
    /\ Returned
    /\ result.method = "failed_remediation"
    /\ \A a \in Agents \ {"postmortem"} : ReportedSuccess(a)

\* every parallel task reported failure or faulted
AllParallelFailed == \A a \in ParallelSet : ReportedFailure(a) \/ Faulted(a)

\* the executor has been invoked
ExecutorInvoked == task[Executor].st # "idle"

(* C32: whenever the remediation-planning task reports failure or faults,   *)
(* the remediation confidence the Decision Engine receives is below 0.7 (0  *)
(* for a reported failure, the fallback 0.3 for a fault), the engine        *)
(* chooses escalate, the executor is never invoked and a returned summary   *)
(* has status escalated, for every severity and overall confidence.  The    *)
(* one exit without a summary is the cancellation of communication          *)
(* planning.                                                                *)
C32_FailedPlanEscalates ==
    (ReportedFailure("remediation") \/ Faulted("remediation")) =>
        /\ ~ExecutorInvoked
        /\ task["postmortem"].st = "idle"
        /\ pc \in {"communication", "returned", "raised"}
        /\ RemediationConfidence =
              (IF Faulted("remediation") THEN FallbackSignal("remediation") ELSE 0)
        /\ RemediationConfidence < RemediationFloor
        /\ Decided => ~locals.should_auto_remediate
        /\ Returned =>
              /\ result.status = "escalated"
              /\ result.method = "parallel_escalation"
              /\ state.status = "escalated"
        /\ pc = "raised" => Cancelled("communication")

C32_Witness ==
    /\ Faulted("remediation")
    /\ Returned
    /\ result.status = "escalated"
    /\ state.severity = "P2"
    /\ locals.overall_confidence = 54
    /\ RemediationConfidence = 18

(* C33: with the default threshold 0.6, when all three parallel tasks       *)
(* report failure or fault, the overall confidence is 0 (no signal) or the  *)
(* fallback 0.5, hence below the threshold: the engine chooses escalate,    *)
(* the executor is never invoked and a returned summary has status          *)
(* escalated, whatever remediation planning returns.                        *)
C33_AllParallelFailedEscalates ==
    (threshold = DefaultThreshold /\ AllParallelFailed /\ Aggregated) =>
        /\ locals.overall_confidence \in {0, 30}
        /\ locals.overall_confidence < threshold
        /\ ~ExecutorInvoked
        /\ Decided => ~locals.should_auto_remediate
        /\ Returned =>
              /\ result.status = "escalated"
              /\ result.method = "parallel_escalation"
              /\ state.status = "escalated"

C33_Witness ==
    /\ AllParallelFailed
    /\ \E a \in ParallelSet : Faulted(a)
    /\ \E a \in ParallelSet : ReportedFailure(a)
    /\ Returned
    /\ result.status = "escalated"
    /\ ReportedSuccess("remediation")
    /\ RemediationConfidence = 42
    /\ state.severity = "P2"
    /\ locals.overall_confidence = 30


\* the summary of the decision branch that escalates (lines 241-253)
DecisionEscalation ==
    Returned /\ result.status = "escalated" /\ result.method = "parallel_escalation"

(* C34: inside the workflow the fall-through reason "Unknown escalation     *)
(* reason" is unreachable: _get_escalation_reason is called only after      *)
(* _should_auto_remediate was false for the same confidences, severity and  *)
(* threshold, so every decision-branch escalation carries the P0, the low   *)
(* overall confidence or the low remediation confidence reason, and the     *)
(* condition that reason names holds.                                       *)
C34_ReasonNeverUnknown ==
    DecisionEscalation =>
        /\ Decided /\ ~locals.should_auto_remediate
        /\ result.reason = locals.escalation_reason
        /\ state.escalation_reason = locals.escalation_reason
        /\ result.reason # <<"Unknown escalation reason">>
        /\ \/ /\ result.reason = <<"P0 severity - requires human oversight">>
              /\ state.severity = "P0"
           \/ /\ result.reason = <<"Low overall confidence", fmt_2f(locals.overall_confidence)>>
              /\ locals.overall_confidence < threshold
           \/ /\ result.reason = <<"Low remediation confidence", fmt_2f(RemediationConfidence)>>
              /\ RemediationConfidence < RemediationFloor

C34_Witness ==
    /\ DecisionEscalation
    /\ state.severity # "P0"
    /\ locals.overall_confidence >= threshold
    /\ RemediationConfidence = 36
    /\ result.reason = <<"Low remediation confidence", fmt_2f(36)>>


(* C35: the incident id of a returned summary equals the identifier of the  *)
(* record created for that call, both when the input supplies an identifier *)
(* and when it does not (the record's identifier is then generated as       *)
(* INC-<date>-<random8>).                                                   *)
C35_SummaryIdIsRecordId ==
    Returned => result.incident_id = state.incident_id

(* C36: when process_incident returns, the status of the summary equals the *)
(* status stored in the call's record, for every terminal outcome           *)
(* (resolved, escalated, error).                                            *)
C36_SummaryStatusIsRecordStatus ==
    Returned => result.status = state.status


\* the phases in which the call awaits a task or the executor before any branch
BeforeOutcome == {"gather", "remediation", "communication", "execute"}

(* C37: the record's status is active from its creation through parallel    *)
(* analysis, remediation planning, communication planning and the decision; *)
(* its only changes are one step from active to resolved or one step from   *)
(* active to escalated, after which it stays; investigating and mitigating  *)
(* (and error) are never stored.                                            *)
C37_StatusTransitions ==
    /\ [](pc \in BeforeOutcome => state.status = "active")
    /\ [](pc # "idle" => state.status \in {"active", "resolved", "escalated"})
    /\ [][pc = "idle" => state'.status = "active"]_vars
    /\ [][pc # "idle" =>
            \/ state'.status = state.status
            \/ /\ state.status = "active"
               /\ state'.status \in {"resolved", "escalated"}]_vars

C37_Witness ==
    /\ pc = "postmortem"
    /\ state.status = "resolved"
    /\ task["postmortem"].st = "running"
    /\ now > 0


\* no call is in flight: the call has not begun, has returned or has raised
Quiescent == pc \in {"idle", "returned", "raised"}

\* the number of summaries returned with the status
ReturnedWith(status) == IF Returned /\ result.status = status THEN 1 ELSE 0

(* C38: whenever no call is in flight the metrics are consistent:           *)
(* total_incidents_handled equals auto_remediated_count plus                *)
(* escalated_count, auto_remediated_count is the number of summaries        *)
(* returned with status resolved and escalated_count the number returned    *)
(* with status escalated; a call that ends with status error changes none   *)
(* of the three counters.                                                   *)
C38_MetricsConsistent ==
    Quiescent =>
        /\ metrics.total_incidents_handled =
                metrics.auto_remediated_count + metrics.escalated_count
        /\ metrics.auto_remediated_count = ReturnedWith("resolved")
        /\ metrics.escalated_count = ReturnedWith("escalated")

(* C39: in every reachable state, under every interleaving of concurrent    *)
(* calls on the shared workflow instance, auto_remediated_count is at most  *)
(* total_incidents_handled whenever success_rate is computed, so the stored *)
(* success_rate is between 0 and 100.                                       *)
C39_SuccessRateWithinRange ==
    /\ 0 <= metrics.success_rate[1]
    /\ metrics.success_rate[1] <= 100 * metrics.success_rate[2]

====
